---- MODULE Spec2Model ----
(***************************************************************************)
(* A model of ts-ws-machine (src/src/index.ts): the pure transition        *)
(* function `update`, the backoff function `calcBackoff`, and the effect   *)
(* interpreter and facade built by `wsMachine`, run against an             *)
(* environment of WebSockets and timers.                                   *)
(*                                                                         *)
(* JavaScript is single threaded and every handler runs to completion, so  *)
(* one action of the model is one whole handler: a facade call, a timer    *)
(* callback or a socket event listener, with every transition and effect   *)
(* it executes synchronously.                                              *)
(***************************************************************************)
EXTENDS Integers, Sequences, FiniteSets, TLC

(***************************************************************************)
(* Bounds of the model.                                                    *)
(***************************************************************************)
\* reconnectAttempt is unbounded in the code; events that would raise it
\* above MaxAttempt are not taken.
MaxAttempt == 2
\* Sockets that exist at the same time (the current one and replaced ones
\* whose close has not completed yet).
MaxSocks == 2

(***************************************************************************)
(* Tagged unions of the source.                                            *)
(***************************************************************************)
StateTags == {"INITIAL", "CONNECTING", "OPEN", "CLOSED", "RECONNECTING"}

ActionTags ==
  {"CONNECT", "OPEN", "HEARTBEAT", "PING_TIMEOUT", "PONG_TIMEOUT", "CLOSE", "RECONNECT"}

TimeoutKeys == {"ping", "pong", "connect"}

\* Action constructors: actions carry no payload.
Act(tag) == [tag |-> tag]

\* States.X(ctx): the same context under tag X.
WithTag(state, tag) == [state EXCEPT !.tag = tag]

\* Effect constructors.
CONNECT_WS(url, onOpen, onClose, onPongMessage) ==
  [type |-> "CONNECT_WS", url |-> url, onOpen |-> onOpen, onClose |-> onClose,
   onPongMessage |-> onPongMessage]

SCHEDULE_TIMEOUT(key, timeoutMillis, onTimeout) ==
  [type |-> "SCHEDULE_TIMEOUT", key |-> key, timeoutMillis |-> timeoutMillis,
   onTimeout |-> onTimeout]

SEND_PING == [type |-> "SEND_PING"]

CLEAR_TIMEOUT(key) == [type |-> "CLEAR_TIMEOUT", key |-> key]

TRIGGER_ACTION(action) == [type |-> "TRIGGER_ACTION", action |-> action]

(***************************************************************************)
(* calcBackoff.  randSeed is a real in [0, 1); the model carries it as an  *)
(* integer number of 1/SeedScale, so 2000 * randSeed is                    *)
(* (2000 * seed) \div SeedScale, exact for the seeds drawn.                *)
(***************************************************************************)
SeedScale == 1000

DefaultMaxVal == 30000

Min(a, b) == IF a <= b THEN a ELSE b

\* calcBackoff with the jitter added before the cap is applied.
calcBackoffCapsJitter(attempt, randSeed, maxVal) ==
  IF attempt = 0
    THEN 0
    ELSE Min(maxVal, attempt * attempt * 1000 + (2000 * randSeed) \div SeedScale)

calcBackoff(attempt, randSeed, maxVal) ==
  IF attempt = 0
    THEN 0
    ELSE Min(maxVal, attempt * attempt * 1000) + (2000 * randSeed) \div SeedScale

\* The configured backoffFn (attempt, randSeed): calcBackoff with its
\* default maxVal, as in the README and the tests.
backoffFn(attempt, randSeed) == calcBackoff(attempt, randSeed, DefaultMaxVal)

(***************************************************************************)
(* Effect builders of the transition function.                             *)
(***************************************************************************)
connect(state) ==
  << WithTag(state, "CONNECTING"),
     << CLEAR_TIMEOUT("connect"),
        CONNECT_WS(state.url, Act("OPEN"), Act("CLOSE"), Act("HEARTBEAT")) >> >>

clearTimeoutEffect(key) == CLEAR_TIMEOUT(key)

clearAllTimeoutsEffects ==
  << clearTimeoutEffect("connect"), clearTimeoutEffect("ping"), clearTimeoutEffect("pong") >>

\* scheduleConnect with the delay computed for the attempt that failed, not
\* for the one that starts.
scheduleConnectSameAttempt(state) ==
  SCHEDULE_TIMEOUT("connect", backoffFn(state.reconnectAttempt, state.randSeed),
                   Act("CONNECT"))

scheduleConnect(state) ==
  SCHEDULE_TIMEOUT("connect", backoffFn(state.reconnectAttempt + 1, state.randSeed),
                   Act("CONNECT"))

schedulePing(state) ==
  SCHEDULE_TIMEOUT("ping", state.pingTimeoutMillis, Act("PING_TIMEOUT"))

waitForPong(state) ==
  SCHEDULE_TIMEOUT("pong", state.pongTimeoutMillis, Act("PONG_TIMEOUT"))

(***************************************************************************)
(* update(action, state): one arm per state tag, each matching the action  *)
(* with a default arm that returns the state and no effects.               *)
(***************************************************************************)
updateINITIAL(action, state) ==
  CASE action.tag = "CONNECT" -> connect(state)
    [] OTHER -> << state, << >> >>

\* updateCONNECTING with OPEN keeping the reconnectAttempt it finds.
updateCONNECTINGKeepsAttempt(action, state) ==
  CASE action.tag = "OPEN" -> << WithTag(state, "OPEN"), << schedulePing(state) >> >>
    [] action.tag = "CLOSE" -> << WithTag(state, "CLOSED"), clearAllTimeoutsEffects >>
    [] OTHER -> << state, << >> >>

\* updateCONNECTING with CONNECT connecting again instead of the default arm.
updateCONNECTINGReconnects(action, state) ==
  CASE action.tag = "OPEN" ->
         << [WithTag(state, "OPEN") EXCEPT !.reconnectAttempt = 0],
            << schedulePing(state) >> >>
    [] action.tag = "CLOSE" -> << WithTag(state, "CLOSED"), clearAllTimeoutsEffects >>
    [] action.tag = "CONNECT" -> connect(state)
    [] OTHER -> << state, << >> >>

updateCONNECTING(action, state) ==
  CASE action.tag = "OPEN" ->
         << [WithTag(state, "OPEN") EXCEPT !.reconnectAttempt = 0],
            << schedulePing(state) >> >>
    [] action.tag = "CLOSE" -> << WithTag(state, "CLOSED"), clearAllTimeoutsEffects >>
    [] OTHER -> << state, << >> >>

\* updateOPEN with PONG_TIMEOUT triggering RECONNECT before CLOSE.
updateOPENReconnectFirst(action, state) ==
  CASE action.tag = "PING_TIMEOUT" ->
         << state, << CLEAR_TIMEOUT("ping"), SEND_PING, waitForPong(state) >> >>
    [] action.tag = "PONG_TIMEOUT" ->
         << state, << TRIGGER_ACTION(Act("RECONNECT")), TRIGGER_ACTION(Act("CLOSE")) >> >>
    [] action.tag = "HEARTBEAT" ->
         << state, << CLEAR_TIMEOUT("ping"), CLEAR_TIMEOUT("pong"), schedulePing(state) >> >>
    [] action.tag = "CLOSE" -> << WithTag(state, "CLOSED"), clearAllTimeoutsEffects >>
    [] OTHER -> << state, << >> >>

\* updateOPEN with HEARTBEAT leaving the pong timer alone.
updateOPENKeepsPong(action, state) ==
  CASE action.tag = "PING_TIMEOUT" ->
         << state, << CLEAR_TIMEOUT("ping"), SEND_PING, waitForPong(state) >> >>
    [] action.tag = "PONG_TIMEOUT" ->
         << state, << TRIGGER_ACTION(Act("CLOSE")), TRIGGER_ACTION(Act("RECONNECT")) >> >>
    [] action.tag = "HEARTBEAT" ->
         << state, << CLEAR_TIMEOUT("ping"), schedulePing(state) >> >>
    [] action.tag = "CLOSE" -> << WithTag(state, "CLOSED"), clearAllTimeoutsEffects >>
    [] OTHER -> << state, << >> >>

\* updateOPEN with CLOSE clearing no timer.
updateOPENCloseKeepsTimers(action, state) ==
  CASE action.tag = "PING_TIMEOUT" ->
         << state, << CLEAR_TIMEOUT("ping"), SEND_PING, waitForPong(state) >> >>
    [] action.tag = "PONG_TIMEOUT" ->
         << state, << TRIGGER_ACTION(Act("CLOSE")), TRIGGER_ACTION(Act("RECONNECT")) >> >>
    [] action.tag = "HEARTBEAT" ->
         << state, << CLEAR_TIMEOUT("ping"), CLEAR_TIMEOUT("pong"), schedulePing(state) >> >>
    [] action.tag = "CLOSE" -> << WithTag(state, "CLOSED"), << >> >>
    [] OTHER -> << state, << >> >>

updateOPEN(action, state) ==
  CASE action.tag = "PING_TIMEOUT" ->
         << state, << CLEAR_TIMEOUT("ping"), SEND_PING, waitForPong(state) >> >>
    [] action.tag = "PONG_TIMEOUT" ->
         << state, << TRIGGER_ACTION(Act("CLOSE")), TRIGGER_ACTION(Act("RECONNECT")) >> >>
    [] action.tag = "HEARTBEAT" ->
         << state, << CLEAR_TIMEOUT("ping"), CLEAR_TIMEOUT("pong"), schedulePing(state) >> >>
    [] action.tag = "CLOSE" -> << WithTag(state, "CLOSED"), clearAllTimeoutsEffects >>
    [] OTHER -> << state, << >> >>

\* updateCLOSED with RECONNECT leaving reconnectAttempt as it is.
updateCLOSEDKeepsAttempt(action, state) ==
  CASE action.tag = "RECONNECT" ->
         << WithTag(state, "RECONNECTING"), << scheduleConnect(state) >> >>
    [] OTHER -> << state, << >> >>

updateCLOSED(action, state) ==
  CASE action.tag = "RECONNECT" ->
         << [WithTag(state, "RECONNECTING")
               EXCEPT !.reconnectAttempt = state.reconnectAttempt + 1],
            << scheduleConnect(state) >> >>
    [] OTHER -> << state, << >> >>

\* updateRECONNECTING that counts a RECONNECT arriving in RECONNECTING again.
updateRECONNECTINGCountsAgain(action, state) ==
  CASE action.tag = "CONNECT" -> connect(state)
    [] action.tag = "RECONNECT" ->
         << [state EXCEPT !.reconnectAttempt = state.reconnectAttempt + 1],
            << scheduleConnect(state) >> >>
    [] OTHER -> << state, << >> >>

\* updateRECONNECTING with no arm for CONNECT.
updateRECONNECTINGIgnoresConnect(action, state) == << state, << >> >>

updateRECONNECTING(action, state) ==
  CASE action.tag = "CONNECT" -> connect(state)
    [] OTHER -> << state, << >> >>

update(action, state) ==
  CASE state.tag = "INITIAL" -> updateINITIAL(action, state)
    [] state.tag = "CONNECTING" -> updateCONNECTING(action, state)
    [] state.tag = "OPEN" -> updateOPEN(action, state)
    [] state.tag = "CLOSED" -> updateCLOSED(action, state)
    [] state.tag = "RECONNECTING" -> updateRECONNECTING(action, state)

(***************************************************************************)
(* The runtime of one machine instance and its environment.                *)
(***************************************************************************)
VARIABLES
  config,      \* the Config given to wsMachine (with the optional fields as passed)
  wsState,     \* the Atom holding the current State
  ws,          \* `let ws`: the id of the current socket, 0 for undefined
  wsHandlers,  \* the Map of listeners: the id of the socket they were created for, 0 if empty
  timeouts,    \* the Map TimeoutKey -> timer handle, 0 for no entry
  observer,    \* whether "wsStateHandler" is registered on the Atom
  socks,       \* environment: the WebSockets created and not yet garbage
  timers,      \* environment: the timers set by setTimeout, neither fired nor cleared
  heard,       \* history: a message was handled since the last ping was written
  ev,          \* history: the handler that ran last, and what it did
  probe        \* the input and result of a pure function applied on its own

vars ==
  << config, wsState, ws, wsHandlers, timeouts, observer, socks, timers, heard, ev, probe >>

\* `undefined` for an optional Config field that was not passed.
Undefined == "undefined"

\* Payloads the server sends, and payloads the caller hands to send().
Payloads == {"pong", "MyPong", "SomeMessage"}

SendPayloads == {"Hello"}

\* What the caller's callbacks do besides recording their argument: nothing,
\* or call machine.disconnect() (onStateChange: on the notification
\* << previous.tag, current.tag >> named in onStateChangeCalls; onMessage: on
\* every message it is handed).
Quiet == [onStateChangeCalls |-> << >>, onMessageCalls |-> "nothing"]

\* The Configs machines are built with: the tests' (defaults for the
\* optional payloads) and one with custom payloads and no observer.
Configs ==
  { [url |-> "ws://localhost:1234", pingTimeoutMillis |-> 5, pongTimeoutMillis |-> 5,
     pingMsg |-> Undefined, pongMsg |-> Undefined, onStateChange |-> TRUE,
     callbacks |-> Quiet],
    [url |-> "ws://localhost:2345", pingTimeoutMillis |-> 10000, pongTimeoutMillis |-> 3000,
     pingMsg |-> "MyPing", pongMsg |-> "MyPong", onStateChange |-> FALSE,
     callbacks |-> Quiet] }

\* Configs whose callbacks call machine.disconnect(): a retry ceiling (on the
\* notification of CLOSED -> RECONNECTING), a caller that gives up when a
\* heartbeat round ends (OPEN -> OPEN), one that hangs up on a message.
ReentrantConfigs ==
  { [url |-> "ws://localhost:1234", pingTimeoutMillis |-> 5, pongTimeoutMillis |-> 5,
     pingMsg |-> Undefined, pongMsg |-> Undefined, onStateChange |-> TRUE,
     callbacks |-> c] :
    c \in { [onStateChangeCalls |-> << "CLOSED", "RECONNECTING" >>,
             onMessageCalls |-> "nothing"],
            [onStateChangeCalls |-> << "OPEN", "OPEN" >>, onMessageCalls |-> "nothing"],
            [onStateChangeCalls |-> << >>, onMessageCalls |-> "disconnect"] } }

\* Math.random() at construction, in 1/SeedScale.
RandSeeds == {0, 500}

\* a ?? b
Coalesce(a, b) == IF a = Undefined THEN b ELSE a

(***************************************************************************)
(* The handlers are operators on a record m of the runtime: the fields     *)
(* above, and what the running handler did so far (applied, notes,         *)
(* forwarded, written, opened, scheduled, err, effects, nested) and the    *)
(* depth of the transition that is running.                                *)
(***************************************************************************)
M ==
  [config |-> config, state |-> wsState, ws |-> ws, wsHandlers |-> wsHandlers,
   timeouts |-> timeouts, observer |-> observer, socks |-> socks, timers |-> timers,
   heard |-> heard,
   applied |-> << >>, notes |-> << >>, forwarded |-> << >>, written |-> << >>,
   opened |-> 0, scheduled |-> << >>, err |-> "none",
   effects |-> << >>, nested |-> 0, depth |-> 0]

\* The smallest id no timer in flight and no stored handle uses.
FreshTimer(m) ==
  LET used == {t.id : t \in m.timers} \cup {m.timeouts[k] : k \in TimeoutKeys}
  IN CHOOSE i \in 1..(Cardinality(used) + 1) :
       i \notin used /\ \A j \in 1..(i - 1) : j \in used

\* The smallest id no socket uses.
FreshSock(m) ==
  LET used == DOMAIN m.socks
  IN CHOOSE i \in 1..(Cardinality(used) + 1) :
       i \notin used /\ \A j \in 1..(i - 1) : j \in used

\* function f with key k set to v (k may be new)
Put(f, k, v) == [x \in DOMAIN f \cup {k} |-> IF x = k THEN v ELSE f[x]]

\* The handlers below are written in steps, each step's runtime bound to a
\* name by value: Val({e : m \in {m0}}) is e with m standing for the value
\* of m0.
Val(S) == CHOOSE v \in S : TRUE

\* webSocket.removeEventListener for every stored handler: the stored
\* handlers are those created for socket m.wsHandlers.
removeEventListeners(m0, webSocket) ==
  Val({ IF m.wsHandlers = webSocket /\ webSocket \in DOMAIN m.socks
          THEN [m EXCEPT !.socks[webSocket].att = FALSE]
          ELSE m : m \in {m0} })

\* clearTimeout(timeouts.get(k)) if there is a handle; the entry stays.
nukeTimeout(m0, k) ==
  Val({ IF m.timeouts[k] # 0
          THEN [m EXCEPT !.timers = {t \in @ : t.id # m.timeouts[k]}]
          ELSE m : m \in {m0} })

\* timeouts.forEach((v, k) => nukeTimeout(k))
clearTimeouts(m) == nukeTimeout(nukeTimeout(nukeTimeout(m, "connect"), "ping"), "pong")

\* WebSocket.close(): starts the closing handshake unless already closing or closed.
wsClose(m0, w) ==
  Val({ IF m.socks[w].rs \in {"CONNECTING", "OPEN"}
          THEN [m EXCEPT !.socks[w].rs = "CLOSING"]
          ELSE m : m \in {m0} })

\* WebSocket.send(data): throws while CONNECTING, is dropped once closing.
wsSend(m0, w, data) ==
  Val({ CASE m.socks[w].rs = "OPEN" -> [m EXCEPT !.written = Append(@, << w, data >>)]
          [] m.socks[w].rs = "CONNECTING" -> [m EXCEPT !.err = "InvalidStateError"]
          [] OTHER -> m : m \in {m0} })

RECURSIVE facadeDisconnect(_)

\* config.onStateChange({previous, current}), as the change handler calls it.
onStateChange(m0, previous, current) ==
  Val({ IF m.config.callbacks.onStateChangeCalls = << previous.tag, current.tag >>
          THEN facadeDisconnect([m EXCEPT !.nested = @ + 1])
          ELSE m :
        m \in {[m0 EXCEPT !.notes = Append(@, << previous.tag, current.tag >>)]} })

\* swap that runs the change handler only when the tag changes.
swapChangesOnly(m0, newState) ==
  Val({ IF m.observer /\ m.state.tag # newState.tag
          THEN onStateChange([m EXCEPT !.state = newState], m.state, newState)
          ELSE [m EXCEPT !.state = newState] : m \in {m0} })

\* swap(wsState, () => newState), which runs the registered change handler.
swap(m0, newState) ==
  Val({ IF m.observer
          THEN onStateChange([m EXCEPT !.state = newState], m.state, newState)
          ELSE [m EXCEPT !.state = newState] : m \in {m0} })

\* CONNECT_WS that leaves the listeners on the old socket.
connectWsKeepsListeners(m0, conn) ==
  Val({ Val({ [m1 EXCEPT !.ws = w,
                         !.socks = Put(@, w, [rs |-> "CONNECTING", att |-> TRUE,
                                              onOpen |-> conn.onOpen,
                                              onClose |-> conn.onClose,
                                              onPongMessage |-> conn.onPongMessage]),
                         !.wsHandlers = w,
                         !.opened = @ + 1] : w \in {FreshSock(m1)} }) :
        m1 \in {IF m0.ws # 0 THEN wsClose(clearTimeouts(m0), m0.ws) ELSE m0} })

\* CONNECT_WS: the old socket, if any, is detached and closed and the timers
\* cleared; then a new socket is created and the three listeners attached.
connectWs(m0, conn) ==
  Val({ Val({ [m1 EXCEPT !.ws = w,
                         !.socks = Put(@, w, [rs |-> "CONNECTING", att |-> TRUE,
                                              onOpen |-> conn.onOpen,
                                              onClose |-> conn.onClose,
                                              onPongMessage |-> conn.onPongMessage]),
                         !.wsHandlers = w,
                         !.opened = @ + 1] : w \in {FreshSock(m1)} }) :
        m1 \in {IF m0.ws # 0
                  THEN wsClose(clearTimeouts(removeEventListeners(m0, m0.ws)), m0.ws)
                  ELSE m0} })

\* SCHEDULE_TIMEOUT: setTimeout, and its handle stored under the key.
scheduleTimeout(m0, t) ==
  Val({ [m EXCEPT !.timers = @ \cup {[id |-> id, key |-> t.key,
                                      timeoutMillis |-> t.timeoutMillis,
                                      onTimeout |-> t.onTimeout]},
                  !.timeouts[t.key] = id,
                  !.scheduled = Append(@, t.key)] :
        m \in {m0}, id \in {FreshTimer(m0)} })

\* SEND_PING: ws.send(config.pingMsg ?? "ping") if there is a socket.
sendPing(m0) ==
  Val({ IF m.ws # 0
          THEN [wsSend(m, m.ws, Coalesce(m.config.pingMsg, "ping")) EXCEPT !.heard = FALSE]
          ELSE m : m \in {m0} })

RECURSIVE transition(_, _), handleEffects(_, _), handleEffect(_, _)

\* handleEffects that runs the list from its last effect to its first.
RECURSIVE handleEffectsLastFirst(_, _)

handleEffectsLastFirst(m0, effects0) ==
  Val({ IF effects = << >>
          THEN m
          ELSE handleEffect(handleEffectsLastFirst(m, Tail(effects)), Head(effects)) :
        m \in {m0}, effects \in {effects0} })

\* m.effects lists the effects in the order they are started, each with the
\* depth of the transition whose list it is in; a transition started by
\* TRIGGER_ACTION runs one level below the one that triggered it.
handleEffect(m0, effect) ==
  Val({ CASE effect.type = "CONNECT_WS" -> connectWs(m, effect)
          [] effect.type = "SCHEDULE_TIMEOUT" -> scheduleTimeout(m, effect)
          [] effect.type = "SEND_PING" -> sendPing(m)
          [] effect.type = "CLEAR_TIMEOUT" -> nukeTimeout(m, effect.key)
          [] effect.type = "TRIGGER_ACTION"
             -> [transition([m EXCEPT !.depth = @ + 1], effect.action)
                   EXCEPT !.depth = m.depth] :
        m \in {[m0 EXCEPT !.effects = Append(@, << m0.depth, effect.type >>)]} })

handleEffects(m0, effects0) ==
  Val({ IF effects = << >>
          THEN m
          ELSE handleEffects(handleEffect(m, Head(effects)), Tail(effects)) :
        m \in {m0}, effects \in {effects0} })

transition(m0, a) ==
  Val({ handleEffects(
          swap([m EXCEPT !.applied = Append(@, << a.tag, m.state.tag, r[1].tag, m.depth >>)],
               r[1]),
          r[2]) :
        m \in {m0}, r \in {update(a, m0.state)} })

(***************************************************************************)
(* The listeners CONNECT_WS attaches to socket w.                          *)
(***************************************************************************)
onOpen(m0, w) == Val({ transition(m, m.socks[w].onOpen) : m \in {m0} })

\* The close listener without the RECONNECT it injects after CLOSE.
onCloseOnly(m0, w) == Val({ transition(m, m.socks[w].onClose) : m \in {m0} })

onClose(m0, w) ==
  Val({ transition(transition(m, m.socks[w].onClose), Act("RECONNECT")) : m \in {m0} })

\* config.onMessage(msg), as the message listener calls it.
configOnMessage(m0, msg) ==
  Val({ IF m.config.callbacks.onMessageCalls = "disconnect"
          THEN facadeDisconnect([m EXCEPT !.nested = @ + 1])
          ELSE m :
        m \in {[m0 EXCEPT !.forwarded = Append(@, msg)]} })

onMessage(m0, w, msg) ==
  Val({ transition(
          [(IF msg # "pong" THEN configOnMessage(m, msg) ELSE m) EXCEPT !.heard = TRUE],
          m.socks[w].onPongMessage) : m \in {m0} })

(***************************************************************************)
(* The facade.                                                             *)
(***************************************************************************)
facadeConnect(m) == transition(m, Act("CONNECT"))

\* disconnect() that removes the change handler after the state is forced.
facadeDisconnectNotifies(m0) ==
  Val({ [(IF m.ws # 0
            THEN Val({ wsClose(swap(m1, [WithTag(m1.state, "INITIAL")
                                           EXCEPT !.reconnectAttempt = 0]), m1.ws) :
                       m1 \in {clearTimeouts(removeEventListeners(m, m.ws))} })
            ELSE m) EXCEPT !.observer = FALSE] : m \in {m0} })

\* disconnect() without clearTimeouts().
facadeDisconnectKeepsTimers(m0) ==
  Val({ IF m.ws # 0
          THEN Val({ wsClose(swap(m1, [WithTag(m1.state, "INITIAL")
                                         EXCEPT !.reconnectAttempt = 0]), m1.ws) :
                     m1 \in {removeEventListeners(m, m.ws)} })
          ELSE m : m \in {[m0 EXCEPT !.observer = FALSE]} })

facadeDisconnect(m0) ==
  Val({ IF m.ws # 0
          THEN Val({ wsClose(swap(m1, [WithTag(m1.state, "INITIAL")
                                         EXCEPT !.reconnectAttempt = 0]), m1.ws) :
                     m1 \in {clearTimeouts(removeEventListeners(m, m.ws))} })
          ELSE m : m \in {[m0 EXCEPT !.observer = FALSE]} })

\* The object wsMachine returns has the members connect, currentState and
\* disconnect: calling send on it is a TypeError, whatever the state.
facadeSend(m, payload) == [m EXCEPT !.err = "TypeError"]

(***************************************************************************)
(* One step of the model: a handler h run to completion from the current   *)
(* runtime, its result stored back, and ev describing it.                  *)
(***************************************************************************)
\* Sockets nothing refers to any more: closed, without listeners, not `ws`.
Collect(m) ==
  LET keep == {w \in DOMAIN m.socks :
                 ~(m.socks[w].rs = "CLOSED" /\ ~m.socks[w].att /\ w # m.ws)}
  IN [w \in keep |-> m.socks[w]]

\* A stored handle of a timer that has fired or was cleared: clearTimeout on
\* it does nothing, whichever timer it was, so all such handles are written
\* as Dead.
Dead == 0 - 1

Handles(m) ==
  [k \in TimeoutKeys |->
     IF m.timeouts[k] # 0 /\ ~(\E t \in m.timers : t.id = m.timeouts[k])
       THEN Dead
       ELSE m.timeouts[k]]

Bounded(r) ==
  /\ r.state.reconnectAttempt <= MaxAttempt
  /\ Cardinality(DOMAIN Collect(r)) <= MaxSocks

NoTimer == [id |-> 0, key |-> "none", timeoutMillis |-> 0, onTimeout |-> Act("none")]

Event(kind, w, payload, timer, delivered, r) ==
  [kind |-> kind, sock |-> w, payload |-> payload, timer |-> timer,
   delivered |-> delivered,
   pre |-> wsState.tag, preRa |-> wsState.reconnectAttempt, preWs |-> ws,
   preHeard |-> heard, preObserver |-> observer,
   applied |-> r.applied, notes |-> r.notes, forwarded |-> r.forwarded,
   written |-> r.written, opened |-> r.opened, scheduled |-> r.scheduled,
   err |-> r.err, effects |-> r.effects, nested |-> r.nested]

NoEvent ==
  [kind |-> "none", sock |-> 0, payload |-> "", timer |-> NoTimer, delivered |-> FALSE,
   pre |-> "INITIAL", preRa |-> 0, preWs |-> 0, preHeard |-> FALSE, preObserver |-> FALSE,
   applied |-> << >>, notes |-> << >>, forwarded |-> << >>, written |-> << >>,
   opened |-> 0, scheduled |-> << >>, err |-> "none", effects |-> << >>, nested |-> 0]

\* The events and what the caller saw of them (notifications, payloads
\* written to a socket), kept for the first MaxTrace events of a machine
\* whose run is recorded.
MaxTrace == 5

Label(e) == IF e.kind = "timer" THEN e.timer.key ELSE e.kind

Traced(e) ==
  IF probe.fn = "trace"
    THEN [probe EXCEPT !.events = Append(@, Label(e)),
                       !.notes = @ \o e.notes,
                       !.written = @ \o [i \in 1..Len(e.written) |-> e.written[i][2]]]
    ELSE probe

Commit(r, e) ==
  /\ Bounded(r)
  /\ wsState' = r.state
  /\ ws' = r.ws
  /\ wsHandlers' = r.wsHandlers
  /\ timeouts' = Handles(r)
  /\ observer' = r.observer
  /\ socks' = Collect(r)
  /\ timers' = r.timers
  /\ heard' = r.heard
  /\ ev' = e
  /\ probe.fn = "trace" => Len(probe.events) < MaxTrace
  /\ probe' = Traced(e)
  /\ UNCHANGED config

\* wsMachine(config): the state after construction.
InitMachine ==
  /\ config \in Configs
  /\ \E seed \in RandSeeds :
       wsState = [tag |-> "INITIAL", url |-> config.url,
                  reconnectAttempt |-> 0, randSeed |-> seed,
                  pingTimeoutMillis |-> config.pingTimeoutMillis,
                  pongTimeoutMillis |-> config.pongTimeoutMillis]
  /\ ws = 0
  /\ wsHandlers = 0
  /\ timeouts = [k \in TimeoutKeys |-> 0]
  /\ observer = config.onStateChange
  /\ socks = << >>
  /\ timers = {}
  /\ heard = FALSE
  /\ ev = NoEvent

Init == InitMachine /\ probe = [fn |-> "none"]

\* machine.connect()
Connect ==
  \E r \in {facadeConnect(M)} :
    Commit(r, Event("connect", 0, "", NoTimer, TRUE, r))

\* machine.disconnect()
Disconnect ==
  \E r \in {facadeDisconnect(M)} :
    Commit(r, Event("disconnect", 0, "", NoTimer, TRUE, r))

\* machine.send(payload)
Send ==
  \E payload \in SendPayloads :
    \E r \in {facadeSend(M, payload)} :
      Commit(r, Event("send", 0, payload, NoTimer, TRUE, r))

\* A pending timer fires: its callback is transition(onTimeout).
FireTimer ==
  \E t \in timers :
    \E r \in {transition([M EXCEPT !.timers = @ \ {t}], t.onTimeout)} :
      Commit(r, Event("timer", 0, "", [t EXCEPT !.id = 0], TRUE, r))

\* The connection of socket w is established: its open event.
SockOpen ==
  \E w \in DOMAIN socks :
    /\ socks[w].rs = "CONNECTING"
    /\ \E r \in {LET m == [M EXCEPT !.socks[w].rs = "OPEN"]
                 IN IF socks[w].att THEN onOpen(m, w) ELSE m} :
         Commit(r, Event("open", w, "", NoTimer, socks[w].att, r))

\* The server sends msg on socket w: its message event.
SockMessage ==
  \E w \in DOMAIN socks, msg \in Payloads :
    /\ socks[w].rs \in {"OPEN", "CLOSING"}
    /\ \E r \in {IF socks[w].att THEN onMessage(M, w, msg) ELSE M} :
         Commit(r, Event("message", w, msg, NoTimer, socks[w].att, r))

\* Socket w is closed (by the server, by a failure, or the closing
\* handshake completes): its close event.
SockCloseOf(w) ==
  /\ socks[w].rs # "CLOSED"
  /\ \E r \in {LET m == [M EXCEPT !.socks[w].rs = "CLOSED"]
               IN IF socks[w].att THEN onClose(m, w) ELSE m} :
       Commit(r, Event("close", w, "", NoTimer, socks[w].att, r))

SockClose == \E w \in DOMAIN socks : SockCloseOf(w)

Next ==
  \/ Connect
  \/ Disconnect
  \/ Send
  \/ FireTimer
  \/ SockOpen
  \/ SockMessage
  \/ SockClose

Spec == Init /\ [][Next]_vars

(***************************************************************************)
(* Runs in which disconnect() is never called, with the scheduling the     *)
(* environment guarantees: a pending timer fires, a socket that is being   *)
(* connected reports open or close, and the closing handshake of a socket  *)
(* the client closed completes.                                            *)
(***************************************************************************)
TimerFires == FireTimer

SocketReports ==
  \/ SockOpen
  \/ \E w \in DOMAIN socks : socks[w].rs \in {"CONNECTING", "CLOSING"} /\ SockCloseOf(w)

NextLive ==
  \/ Connect
  \/ Send
  \/ FireTimer
  \/ SockOpen
  \/ SockMessage
  \/ SockClose

SpecLive ==
  Init /\ [][NextLive]_vars /\ WF_vars(TimerFires) /\ WF_vars(SocketReports)

(***************************************************************************)
(* The first MaxTrace events of a machine, recorded.                       *)
(***************************************************************************)
InitTrace ==
  /\ InitMachine
  /\ probe = [fn |-> "trace", events |-> << >>, notes |-> << >>, written |-> << >>]

SpecTrace == InitTrace /\ [][Next]_vars

(***************************************************************************)
(* Machines whose callbacks call machine.disconnect().                     *)
(***************************************************************************)
InitReentrant ==
  /\ config \in ReentrantConfigs
  /\ \E seed \in RandSeeds :
       wsState = [tag |-> "INITIAL", url |-> config.url,
                  reconnectAttempt |-> 0, randSeed |-> seed,
                  pingTimeoutMillis |-> config.pingTimeoutMillis,
                  pongTimeoutMillis |-> config.pongTimeoutMillis]
  /\ ws = 0
  /\ wsHandlers = 0
  /\ timeouts = [k \in TimeoutKeys |-> 0]
  /\ observer = config.onStateChange
  /\ socks = << >>
  /\ timers = {}
  /\ heard = FALSE
  /\ ev = NoEvent
  /\ probe = [fn |-> "none"]

SpecReentrant == InitReentrant /\ [][Next]_vars

(***************************************************************************)
(* update applied on its own to every action and every state.              *)
(***************************************************************************)
InitUpdate ==
  /\ InitMachine
  /\ \E a \in ActionTags, t \in StateTags, n \in 0..MaxAttempt :
       probe = [fn |-> "update", action |-> Act(a),
                state |-> [wsState EXCEPT !.tag = t, !.reconnectAttempt = n]]

ApplyUpdate ==
  /\ probe.fn = "update"
  /\ probe' = [fn |-> "updated", action |-> probe.action, state |-> probe.state,
               result |-> update(probe.action, probe.state)]
  /\ UNCHANGED << config, wsState, ws, wsHandlers, timeouts, observer, socks, timers,
                  heard, ev >>

NextUpdate == ApplyUpdate

SpecUpdate == InitUpdate /\ [][NextUpdate]_vars

(***************************************************************************)
(* calcBackoff applied on its own: attempts 0..MaxBackoffAttempt, seeds in *)
(* quarters, and maxVal left out (the default) or given.                   *)
(***************************************************************************)
MaxBackoffAttempt == 7

BackoffSeeds == {0, 250, 500, 750}

\* The arguments after randSeed: none, or maxVal.
MaxVals == {<< >>, << 60000 >>, << 5000 >>}

InitBackoff ==
  /\ InitMachine
  /\ \E n \in 0..MaxBackoffAttempt, r \in BackoffSeeds, mv \in MaxVals :
       probe = [fn |-> "calcBackoff", attempt |-> n, randSeed |-> r, maxVal |-> mv]

\* calcBackoff(attempt, randSeed) and calcBackoff(attempt, randSeed, maxVal):
\* a parameter left out takes its default.
ApplyBackoff ==
  /\ probe.fn = "calcBackoff"
  /\ probe' = [fn |-> "calcBackoffed", attempt |-> probe.attempt,
               randSeed |-> probe.randSeed, maxVal |-> probe.maxVal,
               result |-> calcBackoff(probe.attempt, probe.randSeed,
                                      IF probe.maxVal = << >>
                                        THEN DefaultMaxVal
                                        ELSE probe.maxVal[1])]
  /\ UNCHANGED << config, wsState, ws, wsHandlers, timeouts, observer, socks, timers,
                  heard, ev >>

NextBackoff == ApplyBackoff

SpecBackoff == InitBackoff /\ [][NextBackoff]_vars

(***************************************************************************)
(* Properties.                                                             *)
(***************************************************************************)
PendingFor(key) == {t \in timers : t.key = key}

PongTimerFired == ev.kind = "timer" /\ ev.timer.onTimeout = Act("PONG_TIMEOUT")

\* The transition table of the specification, section 4.2: the nine listed
\* pairs; every other pair keeps the state and has no effects.
TableConnect(s) ==
  << WithTag(s, "CONNECTING"),
     << CLEAR_TIMEOUT("connect"),
        CONNECT_WS(s.url, Act("OPEN"), Act("CLOSE"), Act("HEARTBEAT")) >> >>

TableClears ==
  << CLEAR_TIMEOUT("connect"), CLEAR_TIMEOUT("ping"), CLEAR_TIMEOUT("pong") >>

TransitionTable(a, s) ==
  LET pair == << s.tag, a >>
      ping == SCHEDULE_TIMEOUT("ping", s.pingTimeoutMillis, Act("PING_TIMEOUT"))
      pong == SCHEDULE_TIMEOUT("pong", s.pongTimeoutMillis, Act("PONG_TIMEOUT"))
  IN CASE pair = << "INITIAL", "CONNECT" >> -> TableConnect(s)
       [] pair = << "CONNECTING", "OPEN" >> ->
            << [s EXCEPT !.tag = "OPEN", !.reconnectAttempt = 0], << ping >> >>
       [] pair = << "CONNECTING", "CLOSE" >> -> << WithTag(s, "CLOSED"), TableClears >>
       [] pair = << "OPEN", "PING_TIMEOUT" >> ->
            << s, << CLEAR_TIMEOUT("ping"), SEND_PING, pong >> >>
       [] pair = << "OPEN", "PONG_TIMEOUT" >> ->
            << s, << TRIGGER_ACTION(Act("CLOSE")), TRIGGER_ACTION(Act("RECONNECT")) >> >>
       [] pair = << "OPEN", "HEARTBEAT" >> ->
            << s, << CLEAR_TIMEOUT("ping"), CLEAR_TIMEOUT("pong"), ping >> >>
       [] pair = << "OPEN", "CLOSE" >> -> << WithTag(s, "CLOSED"), TableClears >>
       [] pair = << "CLOSED", "RECONNECT" >> ->
            << [s EXCEPT !.tag = "RECONNECTING", !.reconnectAttempt = @ + 1],
               << SCHEDULE_TIMEOUT("connect",
                                   calcBackoff(s.reconnectAttempt + 1, s.randSeed, 30000),
                                   Act("CONNECT")) >> >>
       [] pair = << "RECONNECTING", "CONNECT" >> -> TableConnect(s)
       [] OTHER -> << s, << >> >>

\* C1: for every state tag and every action, update returns exactly the
\* state and the ordered effects of the transition table for the nine
\* listed pairs, and the same state with no effects for the other 26.
C1_UpdateIsTheTable ==
  probe.fn = "updated" => probe.result = TransitionTable(probe.action.tag, probe.state)

C1_Witness ==
  /\ probe.fn = "updated"
  /\ probe.state.tag = "CLOSED"
  /\ probe.action.tag = "RECONNECT"
  /\ probe.state.reconnectAttempt = 1
  /\ probe.result[1].tag = "RECONNECTING"
  /\ probe.result[1].reconnectAttempt = 2
  /\ Len(probe.result[2]) = 1

\* C2: when the close event of the current socket is handled while the
\* machine is CONNECTING or OPEN, the machine ends in RECONNECTING with
\* reconnectAttempt one higher, no ping or pong timer pending, and one
\* connect timer pending whose delay is backoffFn(previous attempt + 1,
\* randSeed) and whose firing injects CONNECT.
C2_CloseReconnects ==
  (ev.kind = "close" /\ ev.delivered /\ ev.sock = ev.preWs
     /\ ev.pre \in {"CONNECTING", "OPEN"})
  => /\ wsState.tag = "RECONNECTING"
     /\ wsState.reconnectAttempt = ev.preRa + 1
     /\ PendingFor("ping") = {}
     /\ PendingFor("pong") = {}
     /\ Cardinality(PendingFor("connect")) = 1
     /\ \A t \in PendingFor("connect") :
          /\ t.timeoutMillis = backoffFn(ev.preRa + 1, wsState.randSeed)
          /\ t.onTimeout = Act("CONNECT")
          /\ timeouts["connect"] = t.id

C2_Witness ==
  /\ ev.kind = "close"
  /\ ev.delivered
  /\ ev.pre = "OPEN"
  /\ wsState.tag = "RECONNECTING"
  /\ wsState.reconnectAttempt = 1
  /\ \E t \in timers : t.key = "connect" /\ t.timeoutMillis = 2000

\* C3: with disconnect() never called, pending timers firing and sockets
\* reporting, every time the machine is RECONNECTING it later enters
\* CONNECTING by an event that opened a new socket.
C3_ReconnectingLeadsToConnecting ==
  (wsState.tag = "RECONNECTING") ~> (wsState.tag = "CONNECTING" /\ ev.opened = 1)

C3_Witness ==
  /\ wsState.tag = "CONNECTING"
  /\ ev.kind = "timer"
  /\ ev.pre = "RECONNECTING"
  /\ ev.opened = 1
  /\ wsState.reconnectAttempt = MaxAttempt

\* C4: when the pong timer fires while the machine is OPEN, the machine is
\* RECONNECTING when the timer's callback returns, and a registered
\* observer has been notified of OPEN->CLOSED immediately followed by
\* CLOSED->RECONNECTING during that callback.
C4_PongTimeoutReconnects ==
  (PongTimerFired /\ ev.pre = "OPEN")
  => /\ wsState.tag = "RECONNECTING"
     /\ ev.preObserver =>
          \E i \in 1..(Len(ev.notes) - 1) :
            /\ ev.notes[i] = << "OPEN", "CLOSED" >>
            /\ ev.notes[i + 1] = << "CLOSED", "RECONNECTING" >>

C4_Witness ==
  /\ PongTimerFired
  /\ ev.pre = "OPEN"
  /\ ev.preObserver
  /\ wsState.tag = "RECONNECTING"
  /\ Len(ev.notes) = 3

\* C5: once a pong timeout has moved the machine to RECONNECTING, the
\* socket it was using has been closed and has none of the machine's
\* listeners attached.
C5_PongTimeoutClosesSocket ==
  (PongTimerFired /\ wsState.tag = "RECONNECTING")
  => \/ ev.preWs \notin DOMAIN socks
     \/ /\ socks[ev.preWs].rs \in {"CLOSING", "CLOSED"}
        /\ ~socks[ev.preWs].att

\* C6: a message handled while the machine is OPEN, pong or not, leaves no
\* pong timer pending and one newly scheduled ping timer of
\* pingTimeoutMillis; and a pong timer only ever fires when no message was
\* handled since the ping was written.
C6_MessageIsLiveness ==
  /\ (ev.kind = "message" /\ ev.delivered /\ ev.pre = "OPEN")
     => /\ PendingFor("pong") = {}
        /\ Cardinality(PendingFor("ping")) = 1
        /\ \A t \in PendingFor("ping") :
             /\ t.timeoutMillis = wsState.pingTimeoutMillis
             /\ t.onTimeout = Act("PING_TIMEOUT")
             /\ timeouts["ping"] = t.id
        /\ ev.scheduled = << "ping" >>
  /\ PongTimerFired => ~ev.preHeard

C6_Witness ==
  /\ ev.kind = "message"
  /\ ev.delivered
  /\ ev.pre = "OPEN"
  /\ ev.payload = "SomeMessage"
  /\ ev.preHeard = FALSE
  /\ timeouts["pong"] = Dead
  /\ PendingFor("ping") # {}

\* C7: send(payload) raises the open-state error, writes nothing and
\* changes nothing unless a socket is open and the machine is OPEN, and
\* then it writes the payload to the live socket.
C7_SendContract ==
  ev.kind = "send"
  => IF ev.pre = "OPEN" /\ ws # 0
       THEN ev.err = "none" /\ ev.written = << << ws, ev.payload >> >>
       ELSE ev.err = "open state" /\ ev.written = << >> /\ ev.applied = << >>

\* C8: an inbound message is forwarded to onMessage exactly when its
\* payload differs from the configured pong payload (default "pong"), and
\* unmodified; SEND_PING writes the configured ping payload (default
\* "ping").
C8_PayloadsHonoured ==
  /\ (ev.kind = "message" /\ ev.delivered)
     => ev.forwarded = IF ev.payload # Coalesce(config.pongMsg, "pong")
                         THEN << ev.payload >>
                         ELSE << >>
  /\ (ev.kind = "timer" /\ ev.timer.onTimeout = Act("PING_TIMEOUT"))
     => \A i \in 1..Len(ev.written) : ev.written[i][2] = Coalesce(config.pingMsg, "ping")

\* C9: disconnect() called from the top level, in any state, raises no
\* error and leaves the machine INITIAL with reconnectAttempt 0, no timer
\* pending and no listener on any socket; and from INITIAL only connect()
\* makes a transition or leaves INITIAL.
C9_DisconnectResets ==
  [][ /\ ev'.kind = "disconnect"
         => /\ wsState'.tag = "INITIAL"
            /\ wsState'.reconnectAttempt = 0
            /\ timers' = {}
            /\ \A w \in DOMAIN socks' : ~socks'[w].att
            /\ ev'.err = "none"
      /\ (wsState.tag = "INITIAL" /\ ev'.kind # "connect")
         => /\ wsState'.tag = "INITIAL"
            /\ ev'.applied = << >> ]_vars

C9_Witness ==
  /\ ev.kind = "disconnect"
  /\ ev.pre = "RECONNECTING"
  /\ ev.preRa = 2
  /\ wsState.tag = "INITIAL"
  /\ wsState.reconnectAttempt = 0
  /\ timeouts["connect"] = Dead

\* C10: connect() called while the machine is CONNECTING or OPEN leaves the
\* state, reconnectAttempt, the pending timers and the current socket as
\* they are and opens no socket.
C10_ConnectIdempotent ==
  [][ (ev'.kind = "connect" /\ wsState.tag \in {"CONNECTING", "OPEN"})
      => /\ wsState' = wsState
         /\ timers' = timers
         /\ timeouts' = timeouts
         /\ ws' = ws
         /\ socks' = socks
         /\ ev'.opened = 0 ]_vars

C10_Witness ==
  /\ ev.kind = "connect"
  /\ ev.pre = "OPEN"
  /\ wsState.tag = "OPEN"
  /\ PendingFor("pong") # {}

\* C11: in every reachable state whose tag is OPEN reconnectAttempt is 0:
\* CONNECTING->OPEN resets it whatever it was, and nothing changes it while
\* OPEN.
C11_OpenHasAttemptZero == wsState.tag = "OPEN" => wsState.reconnectAttempt = 0

C11_Witness ==
  /\ wsState.tag = "OPEN"
  /\ ev.kind = "open"
  /\ ev.pre = "CONNECTING"
  /\ ev.preRa = 2
  /\ wsState.reconnectAttempt = 0

\* C12: update enters RECONNECTING only from CLOSED by RECONNECT, and that
\* step adds exactly 1 to reconnectAttempt and schedules the connect timer
\* with backoffFn of the new count; no other pair raises reconnectAttempt
\* and only CONNECTING/OPEN lowers it.
C12_OnlyReconnectCounts ==
  probe.fn = "updated"
  => LET s == probe.state
         a == probe.action.tag
         t == probe.result[1]
         reconnect == s.tag = "CLOSED" /\ a = "RECONNECT"
     IN /\ (t.tag = "RECONNECTING" /\ s.tag # "RECONNECTING") => reconnect
        /\ reconnect
           => /\ t.tag = "RECONNECTING"
              /\ t.reconnectAttempt = s.reconnectAttempt + 1
              /\ probe.result[2]
                   = << SCHEDULE_TIMEOUT("connect",
                                         backoffFn(t.reconnectAttempt, s.randSeed),
                                         Act("CONNECT")) >>
              /\ t.reconnectAttempt > s.reconnectAttempt
        /\ t.reconnectAttempt > s.reconnectAttempt => reconnect
        /\ t.reconnectAttempt < s.reconnectAttempt
           => (s.tag = "CONNECTING" /\ a = "OPEN" /\ t.reconnectAttempt = 0)

C12_Witness ==
  /\ probe.fn = "updated"
  /\ probe.state.tag = "CLOSED"
  /\ probe.action.tag = "RECONNECT"
  /\ probe.state.reconnectAttempt = 2
  /\ probe.result[1].reconnectAttempt = 3
  /\ probe.result[2][1].timeoutMillis = 9000 + 2 * probe.state.randSeed

\* C13: calcBackoff is 0 for attempt 0 and otherwise
\* min(maxVal, attempt^2 * 1000) + 2000 * randSeed, with maxVal 30000 by
\* default and the cap applied before the jitter is added; so it does not
\* decrease with the attempt and never exceeds maxVal + 2000 * randSeed.
\* (randSeed is in 1/1000, so 2000 * randSeed is 2 * probe.randSeed.)
C13_BackoffFormula ==
  probe.fn = "calcBackoffed"
  => LET n == probe.attempt
         r == probe.randSeed
         mv == IF probe.maxVal = << >> THEN 30000 ELSE probe.maxVal[1]
         sq == n * n * 1000
         expected == IF n = 0 THEN 0 ELSE (IF sq < mv THEN sq ELSE mv) + 2 * r
     IN /\ probe.result = expected
        /\ (n = 6 /\ r = 0 /\ probe.maxVal = << >>) => probe.result = 30000
        /\ (n = 1 /\ r = 500 /\ probe.maxVal = << >>) => probe.result = 2000
        /\ (n = 6 /\ r = 500 /\ probe.maxVal = << 60000 >>) => probe.result = 37000
        /\ \A k \in 0..n : calcBackoff(k, r, mv) <= probe.result
        /\ probe.result <= mv + 2 * r

C13_Witness ==
  /\ probe.fn = "calcBackoffed"
  /\ probe.attempt = 6
  /\ probe.randSeed = 500
  /\ probe.maxVal = << >>
  /\ probe.result = 31000

\* C14: while the observer is registered every action handed to transition
\* produces exactly one notification << previous, current >>, in the order
\* the transitions are applied and also when the state does not change; on a
\* fresh machine connect(), the socket's open event and one firing of the
\* ping timer give exactly INITIAL->CONNECTING, CONNECTING->OPEN, OPEN->OPEN,
\* one ping payload written, and the machine OPEN.
C14_OneNotificationPerAction ==
  /\ (ev.preObserver /\ ev.kind # "disconnect")
     => /\ Len(ev.notes) = Len(ev.applied)
        /\ \A i \in 1..Len(ev.applied) :
             ev.notes[i] = << ev.applied[i][2], ev.applied[i][3] >>
  /\ (probe.fn = "trace" /\ config.onStateChange
        /\ \A i \in 1..Len(probe.events) : probe.events[i] # "disconnect")
     => \A i \in 1..(Len(probe.notes) - 1) : probe.notes[i + 1][1] = probe.notes[i][2]
  /\ (probe.fn = "trace" /\ config.onStateChange
        /\ probe.events = << "connect", "open", "ping" >>)
     => /\ probe.notes = << << "INITIAL", "CONNECTING" >>, << "CONNECTING", "OPEN" >>,
                            << "OPEN", "OPEN" >> >>
        /\ probe.written = << "ping" >>
        /\ wsState.tag = "OPEN"

C14_Witness ==
  /\ probe.fn = "trace"
  /\ config.onStateChange
  /\ probe.events = << "connect", "open", "ping" >>
  /\ Len(probe.notes) = 3
  /\ ev.applied = << << "PING_TIMEOUT", "OPEN", "OPEN", 0 >> >>

\* C15: in every reachable state each timer key has at most one pending
\* timer, and a pending timer is the one whose handle is stored under its
\* key: SCHEDULE_TIMEOUT never runs for a key while an earlier timer of that
\* key is pending.
C15_OneTimerPerKey ==
  /\ \A k \in TimeoutKeys : Cardinality(PendingFor(k)) <= 1
  /\ \A t \in timers : timeouts[t.key] = t.id

C15_Witness ==
  /\ ev.kind = "message"
  /\ ev.pre = "OPEN"
  /\ ev.delivered
  /\ ev.scheduled = << "ping" >>
  /\ Cardinality(PendingFor("ping")) = 1

SockKinds == {"open", "message", "close"}

\* C16: at most one socket has the machine's listeners attached, and it is
\* the current one; a socket CONNECT_WS replaced is closing or closed, and
\* when CONNECT_WS has run no timer is pending; an event of a replaced
\* socket, or of the socket disconnect() detached, applies no transition
\* and hands nothing to onMessage.
C16_OneLiveSocket ==
  /\ \A w \in DOMAIN socks : socks[w].att => w = ws
  /\ \A w \in DOMAIN socks : w # ws => socks[w].rs \in {"CLOSING", "CLOSED"}
  /\ (ev.opened > 0 /\ ev.kind = "connect") => timers = {}
  /\ (ev.kind \in SockKinds /\ (ev.sock # ev.preWs \/ ev.pre = "INITIAL"))
     => (ev.applied = << >> /\ ev.forwarded = << >> /\ ev.notes = << >>)

C16_Witness ==
  /\ ev.kind = "message"
  /\ ev.sock # ev.preWs
  /\ ev.pre = "OPEN"
  /\ ev.payload = "SomeMessage"
  /\ ev.forwarded = << >>

\* C17: disconnect() called from inside onStateChange or onMessage while a
\* transition is being handled is effective: when the handler that was
\* running returns the machine is in INITIAL with no timer pending, and
\* from INITIAL only connect() moves the machine.
C17_DisconnectInCallbackIsFinal ==
  [][ /\ ev'.nested > 0 => (wsState'.tag = "INITIAL" /\ timers' = {})
      /\ (wsState.tag = "INITIAL" /\ ev'.kind # "connect") => wsState'.tag = "INITIAL"
    ]_vars

\* C18: disconnect() removes the observer before it forces the state: the
\* forced transition is not notified, and once the observer is gone no
\* later handler, a later connect() included, notifies it or brings it back.
C18_NoNotificationAfterDisconnect ==
  [][ /\ ev'.kind = "disconnect" => (~observer' /\ ev'.notes = << >>)
      /\ ~observer => (~observer' /\ ev'.notes = << >>) ]_vars

C18_Witness ==
  /\ config.onStateChange
  /\ ~observer
  /\ ev.kind = "open"
  /\ ev.applied = << << "OPEN", "CONNECTING", "OPEN", 0 >> >>
  /\ ev.notes = << >>

\* C19: one event applies at most three transitions, none deeper than one
\* level below the transition the event started; a transition started by
\* TRIGGER_ACTION emits no TRIGGER_ACTION; the three-transition case is the
\* pong timer in OPEN (PONG_TIMEOUT, CLOSE, RECONNECT), whose effects run in
\* list order, CLOSE's three clears before RECONNECT is triggered.
C19_TriggerDepthBounded ==
  /\ Len(ev.applied) <= 3
  /\ \A i \in 1..Len(ev.applied) : ev.applied[i][4] <= 1
  /\ \A j \in 1..Len(ev.effects) :
       ev.effects[j][1] = 0 \/ (ev.effects[j][1] = 1 /\ ev.effects[j][2] # "TRIGGER_ACTION")
  /\ (Len(ev.applied) = 3 \/ (PongTimerFired /\ ev.pre = "OPEN"))
     => /\ PongTimerFired
        /\ ev.applied = << << "PONG_TIMEOUT", "OPEN", "OPEN", 0 >>,
                           << "CLOSE", "OPEN", "CLOSED", 1 >>,
                           << "RECONNECT", "CLOSED", "RECONNECTING", 1 >> >>
        /\ ev.effects = << << 0, "TRIGGER_ACTION" >>, << 1, "CLEAR_TIMEOUT" >>,
                           << 1, "CLEAR_TIMEOUT" >>, << 1, "CLEAR_TIMEOUT" >>,
                           << 0, "TRIGGER_ACTION" >>, << 1, "SCHEDULE_TIMEOUT" >> >>
        /\ \E t \in timers : t.key = "connect"

C19_Witness ==
  /\ PongTimerFired
  /\ ev.pre = "OPEN"
  /\ Len(ev.applied) = 3
  /\ wsState.tag = "RECONNECTING"

\* C20: with callbacks that do not call the facade, between handlers: a ping
\* or pong timer is pending only in OPEN, in OPEN exactly one of the two is
\* pending, the connect timer is pending exactly in RECONNECTING; so a timer
\* that fires finds the state in which its action is not a no-op.
C20_TimersMatchState ==
  LET pending(k) == PendingFor(k) # {}
  IN /\ (pending("ping") \/ pending("pong")) => wsState.tag = "OPEN"
     /\ wsState.tag = "OPEN" => (pending("ping") # pending("pong"))
     /\ pending("connect") <=> wsState.tag = "RECONNECTING"
     /\ ev.kind = "timer"
        => /\ ev.applied # << >>
           /\ << ev.applied[1][1], ev.applied[1][2] >>
                \in { << "PING_TIMEOUT", "OPEN" >>, << "PONG_TIMEOUT", "OPEN" >>,
                      << "CONNECT", "RECONNECTING" >> }

C20_Witness ==
  /\ ev.kind = "timer"
  /\ ev.timer.key = "ping"
  /\ wsState.tag = "OPEN"
  /\ PendingFor("pong") # {}
  /\ PendingFor("ping") = {}

\* C21: CLOSED is transient: every CLOSE that moves the machine to CLOSED is
\* followed at once, in the same handler, by the RECONNECT that moves it to
\* RECONNECTING, so between handlers the state is never CLOSED.
C21_ClosedIsTransient ==
  /\ wsState.tag # "CLOSED"
  /\ \A i \in 1..Len(ev.applied) :
       ev.applied[i][3] = "CLOSED"
       => /\ ev.applied[i][1] = "CLOSE"
          /\ i < Len(ev.applied)
          /\ ev.applied[i + 1][1] = "RECONNECT"
          /\ ev.applied[i + 1][2] = "CLOSED"
          /\ ev.applied[i + 1][3] = "RECONNECTING"

C21_Witness ==
  /\ ev.kind = "close"
  /\ ev.pre = "CONNECTING"
  /\ ev.applied = << << "CLOSE", "CONNECTING", "CLOSED", 0 >>,
                     << "RECONNECT", "CLOSED", "RECONNECTING", 0 >> >>
  /\ wsState.tag = "RECONNECTING"

\* C22: one connection loss is counted once: while the machine is
\* RECONNECTING, a message or the close event of the socket it still listens
\* to (the one the pong timeout gave up on) leaves the state, reconnectAttempt
\* included, and the pending timers as they are and schedules nothing: one
\* connect timer stays pending.
C22_LossCountedOnce ==
  [][ (wsState.tag = "RECONNECTING" /\ ev'.kind \in {"message", "close"}
         /\ ev'.sock = ws /\ ev'.delivered)
      => /\ wsState' = wsState
         /\ timers' = timers
         /\ ev'.scheduled = << >>
         /\ Cardinality(PendingFor("connect")) = 1 ]_vars

C22_Witness ==
  /\ ev.kind = "close"
  /\ ev.pre = "RECONNECTING"
  /\ ev.delivered
  /\ ev.sock = ev.preWs
  /\ ev.applied = << << "CLOSE", "RECONNECTING", "RECONNECTING", 0 >>,
                     << "RECONNECT", "RECONNECTING", "RECONNECTING", 0 >> >>
  /\ wsState.reconnectAttempt = 1
  /\ Cardinality(PendingFor("connect")) = 1

====
